---- MODULE Spec2Model ----
(***************************************************************************)
(* JWKS-based JWT verification with caching                                *)
(* (auth-client/src/auth_client/verifier.py, class JWKSVerifier).          *)
(*                                                                         *)
(* One JWKSVerifier instance is shared by a set of asyncio tasks           *)
(* ("callers").  A task runs without interruption between two awaits; the  *)
(* awaits that can suspend it are the acquisition of _cache_lock and the   *)
(* HTTP GET inside _fetch_jwks.  The actions below are those uninterrupted *)
(* stretches of code.                                                      *)
(*                                                                         *)
(* Strings that the code formats and then searches (the exception texts)   *)
(* are sequences of words; `needle in text` is contiguous-subsequence      *)
(* search on them.                                                         *)
(***************************************************************************)
EXTENDS Integers, Sequences, FiniteSets, TLC

\* ------------------------------------------------------------------ bounds
NumCallers == 2      \* concurrent tasks sharing the verifier
MaxCalls == 3        \* calls of the public API started in one behaviour
MaxTime == 3         \* clock instants 0..MaxTime
MaxDependencies == 2 \* dependencies created by the middleware's factories
MaxRegistrations == 3 \* register calls made in one behaviour

\* KeycloakConfig.jwks_cache_ttl, in clock units of the model
jwks_cache_ttl == 2

Callers == 1..NumCallers
Time == 0..MaxTime

\* ------------------------------------------------------------------- state
VARIABLES
    config,              \* self.config: the KeycloakConfig of the verifier
    jwks_cache,          \* self._jwks_cache
    jwks_cache_expires,  \* self._jwks_cache_expires
    cache_lock,          \* self._cache_lock: the caller holding it, 0 when free
    lock_waiters,        \* the lock's FIFO queue of suspended acquirers
    now,                 \* datetime.now()
    provider,            \* what the JWKS endpoint answers at this moment
    calls,               \* calls of the public API started so far
    call,                \* per caller: the call it is running
    model_call,          \* the last call of a method of models.py, outside
                         \* the verifier: its name, argument and result
    verifier_cache,      \* middleware._verifier_cache: hash -> JWKSVerifier
    dependencies,        \* the dependencies require_auth and optional_auth
                         \* have returned, in order, each with the
                         \* configuration it was asked for and the verifier
                         \* its closure holds
    users,               \* backend: the rows of the users table, in order
    register_call        \* backend: per caller, its AuthService.register call

middleware_vars == <<verifier_cache, dependencies>>
backend_vars == <<users, register_call>>

vars == <<config, jwks_cache, jwks_cache_expires, cache_lock, lock_waiters, now,
          provider, calls, call, model_call, verifier_cache, dependencies,
          users, register_call>>

\* ----------------------------------------------------------- configuration
\* Optional[str] = None
NoneStr == "<None>"

\* KeycloakConfig (config.py lines 24-30): the fields the verifier reads
KeycloakConfig(verify_audience, expected_audience, client_id) ==
    [verify_audience |-> verify_audience,
     expected_audience |-> expected_audience,
     client_id |-> client_id]

\* KeycloakConfig(server_url=..., realm=..., client_id="web")
DefaultConfig == KeycloakConfig(TRUE, NoneStr, "web")

Configs ==
    { KeycloakConfig(v, e, c) :
        v \in BOOLEAN, e \in {NoneStr, "", "api"}, c \in {NoneStr, "web"} }

\* KeycloakConfig.get_audience (config.py lines 67-71); `if s:` is false for
\* None and for the empty string
get_audience(cfg) ==
    IF cfg.expected_audience # NoneStr /\ cfg.expected_audience # ""
    THEN cfg.expected_audience
    ELSE cfg.client_id

\* ------------------------------------------------------------- JSON values
\* What response.json() can hand back and what _jwks_cache can hold.
\* tag "None" is Python's None; tag "dict" is a JSON object which either has
\* a "keys" member (has_keys, with the kids of its key records in order) or
\* is the empty object {}.
NoneJwks == [tag |-> "None", has_keys |-> FALSE, keys |-> <<>>]
EmptyObject == [tag |-> "dict", has_keys |-> FALSE, keys |-> <<>>]
KeySet(ks) == [tag |-> "dict", has_keys |-> TRUE, keys |-> ks]

\* bool(jwks): None and the empty dict are falsy
Truthy(j) == j.tag = "dict" /\ j.has_keys

\* jwks.get("keys", [])
KeysOf(j) == IF j.has_keys THEN j.keys ELSE <<>>

\* The key sets the identity provider publishes over time (rotation), and
\* the degenerate answers a 200 response can carry.
ProviderResponses ==
    { KeySet(<<"k1">>), KeySet(<<"k2", "k1">>), EmptyObject }

\* Optional[datetime] = None for _jwks_cache_expires
NoExpiry == -1

\* ------------------------------------------------------------------- words
Phrase == <<"No", "matching", "key", "found">>

\* `needle in text` for word sequences
Contains(text, needle) ==
    \E i \in 0..(Len(text) - Len(needle)) :
        \A j \in 1..Len(needle) : text[i + j] = needle[j]

\* ------------------------------------------------------------------ tokens
\* The aud claim of a token
AudAbsent == [kind |-> "absent", vals |-> <<>>]
AudStr(a) == [kind |-> "str", vals |-> <<a>>]
AudList(as) == [kind |-> "list", vals |-> as]
AudWeb == AudStr("web")
AudOther == AudStr("other")
Auds == { AudAbsent, AudWeb, AudOther, AudStr("api"),
          AudList(<<"other", "api">>), AudList(<<"other">>) }

\* ------------------------------------------------------------ JSON claims
\* A claim set is a record: the names of the claims present, each with its
\* value.  sub, iss and the other text claims are strings, exp and iat
\* numbers, aud as above.  The two claims whose type the code inspects,
\* realm_access and roles, are tagged JSON values.
JNull == [t |-> "null"]
JStr(x) == [t |-> "str", s |-> x]
JList(xs) == [t |-> "list", l |-> xs]
JDict(r) == [t |-> "dict", d |-> r]

\* claims | {k: v}
WithClaim(claims, k, v) ==
    [x \in DOMAIN claims \cup {k} |-> IF x = k THEN v ELSE claims[x]]

\* claims.get(k, default)
Get(claims, k, default) ==
    IF k \in DOMAIN claims THEN claims[k] ELSE default

Issuer == "https://kc/realms/app"
ExpPast == 0
ExpFuture == 9
IatValue == 1

\* The claim set of the tokens the verifier is given: subject u1, issued at
\* IatValue, exp and iss as the token's flags say, aud when it has one.
ClaimsOf(exp_ok, iss_ok, aud) ==
    LET base == [sub |-> "u1",
                 iss |-> IF iss_ok THEN Issuer ELSE "https://other/realms/app",
                 exp |-> IF exp_ok THEN ExpFuture ELSE ExpPast,
                 iat |-> IatValue] IN
    IF aud.kind = "absent" THEN base ELSE WithClaim(base, "aud", aud)

\* ---------------------------------------------------------------- models.py
\* an exception raised inside a models.py method
JRaise(exc) == [t |-> "raise", exc |-> exc]
IsRaise(x) == "t" \in DOMAIN x /\ x.t = "raise"

\* `"roles" in s` for the strings of the model: substring search
StrContainsRoles(x) == x \in {"roles", "no-roles", "realm-roles"}

\* `"roles" in x` (line 68) for a JSON value x: the keys of an object, the
\* elements of an array, the substrings of a string; on null it raises
\* TypeError, which "raise" stands for.
RolesIn(x) ==
    CASE x.t = "dict" -> IF "roles" \in DOMAIN x.d THEN "yes" ELSE "no"
      [] x.t = "list" -> IF \E i \in 1..Len(x.l) : x.l[i] = "roles"
                         THEN "yes" ELSE "no"
      [] x.t = "str" -> IF StrContainsRoles(x.s) THEN "yes" ELSE "no"
      [] OTHER -> "raise"

\* TokenPayload.from_claims lines 66-72: the roles.  x["roles"] (line 69)
\* is the member of an object and raises TypeError on an array or a string.
extract_roles(claims) ==
    LET nested == IF "realm_access" \in DOMAIN claims
                  THEN RolesIn(claims.realm_access) ELSE "no" IN
    IF nested = "raise" THEN JRaise("TypeError")
    ELSE IF nested = "yes"
    THEN IF claims.realm_access.t = "dict"
         THEN claims.realm_access.d.roles
         ELSE JRaise("TypeError")
    ELSE IF "roles" \in DOMAIN claims
    THEN IF claims.roles.t = "list" THEN claims.roles ELSE JList(<<>>)
    ELSE JList(<<>>)

\* from_claims with exp and iat read from each other's claim
from_claims_swaps_exp_iat(claims) ==
    [sub |-> Get(claims, "sub", ""),
     iss |-> Get(claims, "iss", ""),
     exp |-> Get(claims, "iat", 0),
     iat |-> Get(claims, "exp", 0),
     aud |-> Get(claims, "aud", AudAbsent),
     jti |-> Get(claims, "jti", NoneStr),
     typ |-> Get(claims, "typ", NoneStr),
     azp |-> Get(claims, "azp", NoneStr),
     scope |-> Get(claims, "scope", NoneStr),
     email |-> Get(claims, "email", NoneStr),
     email_verified |-> Get(claims, "email_verified", FALSE),
     preferred_username |-> Get(claims, "preferred_username", NoneStr),
     given_name |-> Get(claims, "given_name", NoneStr),
     family_name |-> Get(claims, "family_name", NoneStr),
     name |-> Get(claims, "name", NoneStr),
     roles |-> extract_roles(claims),
     resource_access |-> Get(claims, "resource_access", JDict(<<>>)),
     raw_claims |-> claims]

\* TokenPayload.from_claims lines 55-93; None is NoneStr for the text fields
\* and AudAbsent for aud.  An exception of lines 66-72 leaves the method.
from_claims(claims) ==
    IF IsRaise(extract_roles(claims)) THEN extract_roles(claims) ELSE
    [sub |-> Get(claims, "sub", ""),
     iss |-> Get(claims, "iss", ""),
     exp |-> Get(claims, "exp", 0),
     iat |-> Get(claims, "iat", 0),
     aud |-> Get(claims, "aud", AudAbsent),
     jti |-> Get(claims, "jti", NoneStr),
     typ |-> Get(claims, "typ", NoneStr),
     azp |-> Get(claims, "azp", NoneStr),
     scope |-> Get(claims, "scope", NoneStr),
     email |-> Get(claims, "email", NoneStr),
     email_verified |-> Get(claims, "email_verified", FALSE),
     preferred_username |-> Get(claims, "preferred_username", NoneStr),
     given_name |-> Get(claims, "given_name", NoneStr),
     family_name |-> Get(claims, "family_name", NoneStr),
     name |-> Get(claims, "name", NoneStr),
     roles |-> extract_roles(claims),
     resource_access |-> Get(claims, "resource_access", JDict(<<>>)),
     raw_claims |-> claims]

\* no TokenPayload
NoPayload == [none |-> TRUE]

\* `role in self.roles` on a list of strings: some element equals role
RoleIn(role, roles) == \E i \in 1..Len(roles.l) : roles.l[i] = role

\* has_all_roles answering as has_any_role does
has_all_roles_any_suffices(self, roles) ==
    \E i \in 1..Len(roles) : RoleIn(roles[i], self.roles)

\* TokenPayload.has_role / has_any_role / has_all_roles (models.py lines
\* 110-120) and AuthUser's methods of the same names (lines 190-200), which
\* have the same bodies over self.roles
has_role(self, role) == RoleIn(role, self.roles)
has_any_role(self, roles) == \E i \in 1..Len(roles) : RoleIn(roles[i], self.roles)
has_all_roles(self, roles) == \A i \in 1..Len(roles) : RoleIn(roles[i], self.roles)

\* AuthUser.from_token_payload (models.py lines 155-178)
from_token_payload(payload, raw_token) ==
    [sub |-> payload.sub,
     email |-> payload.email,
     email_verified |-> payload.email_verified,
     username |-> payload.preferred_username,
     name |-> payload.name,
     given_name |-> payload.given_name,
     family_name |-> payload.family_name,
     roles |-> payload.roles,
     raw_token |-> raw_token,
     token_payload |-> payload]

RS256 == <<"RS256">>
Algs == { RS256, <<"HS256">>, <<"none">>, Phrase }
Kids == { "k1", "k2", "k3" }

\* A bearer token as the verifier sees it:
\*   empty      the string is ""
\*   bearer     it starts with "Bearer "
\*   header_ok  jwt.get_unverified_header parses the (stripped) string
\*   alg, kid   the header fields (words of the alg string; the kid)
\*   sig_ok     the signature verifies under the JWKS key with that kid
\*   exp_ok     exp is in the future;  iss_ok  iss is the configured issuer
\*   aud        the aud claim: absent, a string, or a list of strings
\*   claims     the claim set of the payload
Tok(empty, bearer, header_ok, alg, kid, sig_ok, exp_ok, iss_ok, aud) ==
    [empty |-> empty, bearer |-> bearer, header_ok |-> header_ok,
     alg |-> alg, kid |-> kid, sig_ok |-> sig_ok, exp_ok |-> exp_ok,
     iss_ok |-> iss_ok, aud |-> aud, claims |-> ClaimsOf(exp_ok, iss_ok, aud)]

EmptyToken == Tok(TRUE, FALSE, FALSE, RS256, "k1", FALSE, FALSE, FALSE, AudAbsent)
BearerOnly == Tok(FALSE, TRUE, FALSE, RS256, "k1", FALSE, FALSE, FALSE, AudAbsent)
Garbage == Tok(FALSE, FALSE, FALSE, RS256, "k1", FALSE, FALSE, FALSE, AudAbsent)
Good(kid) == Tok(FALSE, FALSE, TRUE, RS256, kid, TRUE, TRUE, TRUE, AudWeb)
WithAlg(alg, kid) == Tok(FALSE, FALSE, TRUE, alg, kid, TRUE, TRUE, TRUE, AudWeb)

Tokens ==
    { EmptyToken, BearerOnly, Garbage }
    \cup { Good(k) : k \in Kids }
    \cup { WithAlg(a, k) : a \in Algs \ {RS256}, k \in {"k1", "k3"} }
    \cup { Tok(FALSE, FALSE, TRUE, RS256, "k1", FALSE, TRUE, TRUE, AudWeb),
           Tok(FALSE, TRUE, TRUE, RS256, "k1", TRUE, FALSE, TRUE, AudWeb),
           Tok(FALSE, FALSE, TRUE, RS256, "k1", TRUE, TRUE, FALSE, AudWeb),
           Tok(FALSE, FALSE, TRUE, RS256, "k1", TRUE, TRUE, TRUE, AudOther) }

\* -------------------------------------------------------------- exceptions
\* verifier.py lines 16-48: every error class but JWKSFetchError derives from
\* JWKSVerificationError.
VerificationErrors ==
    { "JWKSVerificationError", "TokenExpiredError", "InvalidTokenError",
      "InvalidSignatureError", "InvalidIssuerError", "InvalidAudienceError" }

\* isinstance(e, JWKSVerificationError)
IsVerificationError(kind) == kind \in VerificationErrors

Raise(kind, msg) == [kind |-> kind, msg |-> msg]
Returned == Raise("TokenPayload", <<>>)
NoResult == Raise("none", <<>>)

\* str.lower() on the words that occur in the library's messages
Lower(w) ==
    CASE w = "Invalid" -> "invalid"
      [] w = "Signature" -> "signature"
      [] w = "Token" -> "token"
      [] w = "The" -> "the"
      [] w = "Subject" -> "subject"
      [] OTHER -> w

LowerAll(text) == [i \in 1..Len(text) |-> Lower(text[i])]

\* ------------------------------------------------------------ key resolver
\* The for loop of _get_signing_key: index of the first key whose kid equals
\* the token's, 0 when the loop runs off the end.
RECURSIVE Scan(_, _, _)
Scan(keys, kid, i) ==
    IF i > Len(keys) THEN 0
    ELSE IF keys[i] = kid THEN i
    ELSE Scan(keys, kid, i + 1)

\* _get_signing_key taking the first key of the set, whatever its kid
get_signing_key_first_key(tok, jwks) ==
    IF ~tok.header_ok
    THEN [err |-> Raise("InvalidTokenError",
                        <<"Invalid", "token", "header:", "Error", "decoding",
                          "token", "headers.">>),
          key |-> 0, compares |-> 0, missed |-> FALSE]
    ELSE IF tok.alg # RS256
    THEN [err |-> Raise("InvalidTokenError",
                        <<"Unsupported", "algorithm:">> \o tok.alg
                          \o <<".", "Only", "RS256", "is", "supported.">>),
          key |-> 0, compares |-> 0, missed |-> FALSE]
    ELSE IF Len(KeysOf(jwks)) > 0
         THEN [err |-> NoResult, key |-> 1, compares |-> 1, missed |-> FALSE]
         ELSE [err |-> Raise("JWKSVerificationError",
                             Phrase \o <<"in", "JWKS", "for", "kid:", tok.kid>>),
               key |-> 0, compares |-> 0, missed |-> TRUE]

\* _get_signing_key with the algorithm test moved after the key lookup
get_signing_key_alg_after_scan(tok, jwks) ==
    IF ~tok.header_ok
    THEN [err |-> Raise("InvalidTokenError",
                        <<"Invalid", "token", "header:", "Error", "decoding",
                          "token", "headers.">>),
          key |-> 0, compares |-> 0, missed |-> FALSE]
    ELSE LET at == Scan(KeysOf(jwks), tok.kid, 1)
             n == IF at # 0 THEN at ELSE Len(KeysOf(jwks)) IN
         IF tok.alg # RS256
         THEN [err |-> Raise("InvalidTokenError",
                             <<"Unsupported", "algorithm:">> \o tok.alg
                               \o <<".", "Only", "RS256", "is", "supported.">>),
               key |-> 0, compares |-> n, missed |-> FALSE]
         ELSE IF at # 0
         THEN [err |-> NoResult, key |-> at, compares |-> at, missed |-> FALSE]
         ELSE [err |-> Raise("JWKSVerificationError",
                             Phrase \o <<"in", "JWKS", "for", "kid:", tok.kid>>),
               key |-> 0, compares |-> n, missed |-> TRUE]

\* _get_signing_key(token, jwks): the exception raised (kind "none" when a key
\* is returned, with its index); compares counts the executions of
\* `key.get("kid") == kid`; missed marks the raise of lines 183-185.
get_signing_key(tok, jwks) ==
    IF ~tok.header_ok
    THEN [err |-> Raise("InvalidTokenError",
                        <<"Invalid", "token", "header:", "Error", "decoding",
                          "token", "headers.">>),
          key |-> 0, compares |-> 0, missed |-> FALSE]
    ELSE IF tok.alg # RS256
    THEN [err |-> Raise("InvalidTokenError",
                        <<"Unsupported", "algorithm:">> \o tok.alg
                          \o <<".", "Only", "RS256", "is", "supported.">>),
          key |-> 0, compares |-> 0, missed |-> FALSE]
    ELSE LET at == Scan(KeysOf(jwks), tok.kid, 1) IN
         IF at # 0
         THEN [err |-> NoResult, key |-> at, compares |-> at, missed |-> FALSE]
         ELSE [err |-> Raise("JWKSVerificationError",
                             Phrase \o <<"in", "JWKS", "for", "kid:", tok.kid>>),
               key |-> 0, compares |-> Len(KeysOf(jwks)), missed |-> TRUE]

\* --------------------------------------------------------- claim validator
\* verify_token's keyword arguments; verify_aud "None" takes the
\* configuration's verify_audience.
Opts(e, i, a) == [verify_exp |-> e, verify_iss |-> i, verify_aud |-> a]
DefaultOpts == Opts(TRUE, TRUE, "None")
config_verify_audience == config.verify_audience

EffectiveAud(opts) ==
    IF opts.verify_aud = "None" THEN config_verify_audience
    ELSE opts.verify_aud = "True"

\* verify_token line 240: the audience handed to jwt.decode
Audience(opts) ==
    IF EffectiveAud(opts) THEN get_audience(config) ELSE NoneStr

\* The library's audience check: a token without aud passes; a string aud is
\* taken as the one-element list; the expected audience (None included) must
\* be an element of the list.
validate_aud(aud, audience) ==
    \/ aud.kind = "absent"
    \/ \E i \in 1..Len(aud.vals) : aud.vals[i] = audience

\* verify_token lines 229-237: the options dictionary handed to jwt.decode
Options(opts) ==
    [verify_signature |-> TRUE,
     verify_exp |-> opts.verify_exp,
     verify_iss |-> opts.verify_iss,
     verify_aud |-> EffectiveAud(opts),
     require_exp |-> TRUE,
     require_iat |-> TRUE,
     require_sub |-> TRUE]

\* jwt.decode(token, signing_key, algorithms=["RS256"], ...): the library's
\* exception (class and text) or "claims".  The signature is verified first.
\* A claim that a require_ option names must be present, and when it is
\* present the library turns the verify_ option of that claim on, whatever
\* the caller passed; the tokens of the model carry exp, iat and sub.  Then
\* exp, aud and iss are checked in that order, each when its option is on.
jwt_decode(tok, opts) ==
    LET options == Options(opts)
        audience == Audience(opts)
        verify_exp == options.verify_exp \/ options.require_exp IN
    IF ~tok.sig_ok
    THEN [exc |-> "JWTError", text |-> <<"Signature", "verification", "failed.">>]
    ELSE IF verify_exp /\ ~tok.exp_ok
    THEN [exc |-> "ExpiredSignatureError", text |-> <<"Signature", "has", "expired.">>]
    ELSE IF options.verify_aud /\ ~validate_aud(tok.aud, audience)
    THEN [exc |-> "JWTClaimsError", text |-> <<"Invalid", "audience">>]
    ELSE IF options.verify_iss /\ ~tok.iss_ok
    THEN [exc |-> "JWTClaimsError", text |-> <<"Invalid", "issuer">>]
    ELSE [exc |-> "claims", text |-> <<>>]

\* The try/except of verify_token (lines 242-269) around jwt.decode.
decode_and_map(tok, opts) ==
    LET d == jwt_decode(tok, opts) IN
    CASE d.exc = "claims" ->
            IF IsRaise(from_claims(tok.claims))
            THEN Raise("JWKSVerificationError",
                       <<"Unexpected", "verification", "error:",
                         from_claims(tok.claims).exc>>)
            ELSE Returned
      [] d.exc = "ExpiredSignatureError" ->
            Raise("TokenExpiredError", <<"Token", "has", "expired">>)
      [] d.exc = "JWTClaimsError" ->
            IF Contains(LowerAll(d.text), <<"issuer">>)
            THEN Raise("InvalidIssuerError", <<"Invalid", "issuer:">> \o d.text)
            ELSE IF Contains(LowerAll(d.text), <<"audience">>)
            THEN Raise("InvalidAudienceError", <<"Invalid", "audience:">> \o d.text)
            ELSE Raise("JWKSVerificationError",
                       <<"Claims", "validation", "failed:">> \o d.text)
      [] d.exc = "JWTError" ->
            IF Contains(LowerAll(d.text), <<"signature">>)
            THEN Raise("InvalidSignatureError", <<"Invalid", "signature:">> \o d.text)
            ELSE Raise("InvalidTokenError",
                       <<"Token", "verification", "failed:">> \o d.text)

\* verify_token from line 226 on, once get_jwks has returned jwks: what the
\* call returns or raises, the key comparisons made, whether jwt.decode ran,
\* and whether the resolver found no key for the kid.
verify_with_jwks(tok, jwks, opts) ==
    LET r == get_signing_key(tok, jwks) IN
    IF r.err.kind # "none"
    THEN [out |-> r.err, compares |-> r.compares, decoded |-> FALSE,
          missed |-> r.missed, payload |-> NoPayload]
    ELSE LET out == decode_and_map(tok, opts) IN
         [out |-> out, compares |-> r.compares,
          decoded |-> TRUE, missed |-> FALSE,
          payload |-> IF out = Returned THEN from_claims(tok.claims)
                      ELSE NoPayload]

\* the retry test with equality in place of the substring search
should_retry_exact_text(err) ==
    IsVerificationError(err.kind) /\ err.msg = Phrase

\* verify_token_with_retry lines 291-292: the except clause and its test
should_retry(err) ==
    IsVerificationError(err.kind) /\ Contains(err.msg, Phrase)

\* ------------------------------------------------------------ middleware.py
\* A KeycloakConfig with the fields that tell provider configurations apart
\* (config.py lines 24-30)
ProviderConfig(server_url, realm, expected_audience, verify_audience, ttl) ==
    [server_url |-> server_url, realm |-> realm, client_id |-> "web",
     expected_audience |-> expected_audience,
     verify_audience |-> verify_audience, jwks_cache_ttl |-> ttl]

ProviderConfigs ==
    { ProviderConfig(u, r, e, v, t) :
        u \in {"http://kc-a", "http://kc-b"}, r \in {"app", "ops"},
        e \in {NoneStr, "api"}, v \in BOOLEAN, t \in {300, 3600} }

\* hash(x) of a tuple of strings, taken to tell different tuples apart
hash(x) == x

\* JWKSVerifier.__init__ (verifier.py lines 74-84)
JWKSVerifier(cfg) ==
    [config |-> cfg, jwks_cache |-> NoneJwks, jwks_cache_expires |-> NoExpiry]

\* _get_verifier line 23
config_hash(cfg) == hash(<<cfg.server_url, cfg.realm>>)

\* _get_verifier lines 24-25: _verifier_cache after the call
get_verifier_cache(cfg) ==
    IF config_hash(cfg) \in DOMAIN verifier_cache
    THEN verifier_cache
    ELSE [h \in DOMAIN verifier_cache \cup {config_hash(cfg)} |->
            IF h = config_hash(cfg) THEN JWKSVerifier(cfg) ELSE verifier_cache[h]]

\* What a dependency hands to FastAPI
NoResponse == [kind |-> "none"]
NoneResponse == [kind |-> "None"]
UserResponse(user) == [kind |-> "AuthUser", user |-> user]
HTTPException(status_code, detail) ==
    [kind |-> "HTTPException", status_code |-> status_code, detail |-> detail]
Propagated(out) == [kind |-> "raise", exc |-> out.kind]
Passed == [kind |-> "passed"]

\* The Authorization header of a request: absent, of another scheme, or
\* "Bearer " followed by a token string (possibly empty)
NoHeader == [kind |-> "absent", token |-> EmptyToken]
BasicHeader == [kind |-> "other", token |-> EmptyToken]
Bearer(tok) == [kind |-> "bearer", token |-> tok]

\* the role test shared by require_auth (lines 138-150) and require_roles
\* (lines 258-271)
check_roles(user, required_roles, any_role) ==
    IF any_role
    THEN IF ~has_any_role(user, required_roles)
         THEN HTTPException(403, "User lacks any of required roles")
         ELSE Passed
    ELSE IF ~has_all_roles(user, required_roles)
         THEN HTTPException(403, "User lacks required roles")
         ELSE Passed

\* require_auth's dependency, lines 114-152, once verify_token_with_retry
\* has ended in out
require_auth_response(rec, out) ==
    IF out = Returned
    THEN LET user == from_token_payload(rec.payload, rec.token) IN
         IF rec.required_roles # <<>>
            /\ check_roles(user, rec.required_roles, rec.any_role) # Passed
         THEN check_roles(user, rec.required_roles, rec.any_role)
         ELSE UserResponse(user)
    ELSE IF out.kind = "TokenExpiredError"
    THEN HTTPException(401, "Token has expired")
    ELSE IF out.kind = "InvalidTokenError"
    THEN HTTPException(401, "Invalid token")
    ELSE IF IsVerificationError(out.kind)
    THEN HTTPException(401, "Token verification failed")
    ELSE Propagated(out)

\* optional_auth's dependency, lines 210-214
optional_auth_response(rec, out) ==
    IF out = Returned
    THEN UserResponse(from_token_payload(rec.payload, rec.token))
    ELSE IF IsVerificationError(out.kind)
    THEN NoneResponse
    ELSE Propagated(out)

\* what the caller of the verifier does with its outcome
dependency_response(rec, out) ==
    CASE rec.dep = "require_auth" -> require_auth_response(rec, out)
      [] rec.dep = "optional_auth" -> optional_auth_response(rec, out)
      [] OTHER -> rec.response

\* require_roles' dependency, lines 248-271
require_roles_response(state, roles, any_role) ==
    IF "auth_user" \notin DOMAIN state
    THEN HTTPException(401, "Authentication required")
    ELSE check_roles(state.auth_user, roles, any_role)

\* ------------------------------------------------------------------ backend
\* hash_password(password): the bcrypt hash
hash_password(password) == <<"bcrypt", password>>

\* uuid.uuid4(): an identifier no other call draws; the n-th of caller c
uuid4(c, n) == <<"uuid", c, n>>

\* SELECT ... WHERE email = :email on the users table
RowsWithEmail(table, email) ==
    { i \in 1..Len(table) : table[i].email = email }

\* A caller's AuthService.register call.
\*   pc       idle | exists (suspended in exists_by_email's execute) |
\*            create (suspended in create's commit) | done
\*   n        register calls this caller has made
\*   taken    the email was registered when the call was made
\*   result   "Account created" or the exception
IdleRegister ==
    [pc |-> "idle", email |-> "", password |-> "", user_id |-> <<>>,
     n |-> 0, taken |-> FALSE, result |-> "none"]

\* =================================================================== state
\* no method of models.py has been called
NoModelCall == [fn |-> "none"]

\* A caller's frame.
\*   pc        idle | acquire (suspended in `async with self._cache_lock`) |
\*             fetching (suspended in client.get, lock held) | done
\*   op        the public method called
\*   mode      the cache method being run: get (get_jwks) | refresh
\*   attempt   verify_token invocations begun by this call
\*   jwks      the value the last get_jwks returned to this call
\*   src       where that value came from: cache | fetch
\*   result    what the call returned or raised
\*   fetches, refreshes, resolves, misses, compares, decodes: what the call
\*             has done (HTTP GETs issued, refresh_jwks calls,
\*             _get_signing_key calls, how many of these found no key, kid
\*             comparisons of the last of them, jwt.decode calls)
\*   cold      get_jwks was called while nothing had been cached yet
\*   busy      refresh_jwks was called while a GET was in flight
\*   payload   the TokenPayload the call returned
\*   healable  when the verification was called, the provider was publishing
\*             a key with the token's kid
\*   refreshed, refreshed_expires: what the call's completed refresh_jwks
\*             stored in the cache, and the expiry it stored with it
\*   dep       the middleware dependency that made the call for a request
\*   required_roles, any_role: the arguments of that dependency's factory
\*   response  what the dependency returned or raised
\*   state     request.state: the attributes set on it
\*   role_check  the require_roles dependency that ran on the same request:
\*             its roles and any_role, and what it returned or raised
IdleCall ==
    [pc |-> "idle", op |-> "none", mode |-> "none", token |-> EmptyToken,
     opts |-> DefaultOpts, attempt |-> 0, jwks |-> NoneJwks, src |-> "none",
     result |-> NoResult, fetches |-> 0, refreshes |-> 0, resolves |-> 0,
     misses |-> 0, compares |-> 0, decodes |-> 0, cold |-> FALSE,
     busy |-> FALSE, healable |-> FALSE, payload |-> NoPayload,
     refreshed |-> NoneJwks, refreshed_expires |-> NoExpiry,
     dep |-> "none", required_roles |-> <<>>, any_role |-> FALSE,
     response |-> NoResponse, state |-> <<>>, role_check |-> NoResponse]

Init ==
    /\ config = DefaultConfig
    /\ model_call = NoModelCall
    /\ verifier_cache = <<>>
    /\ dependencies = <<>>
    /\ users = <<>>
    /\ register_call = [c \in Callers |-> IdleRegister]
    /\ jwks_cache = NoneJwks
    /\ jwks_cache_expires = NoExpiry
    /\ cache_lock = 0
    /\ lock_waiters = <<>>
    /\ now = 0
    /\ provider \in ProviderResponses
    /\ calls = 0
    /\ call = [c \in Callers |-> IdleCall]

\* ------------------------------------------------------- control, per call
\* token[7:] when the token starts with "Bearer "
strip_bearer(tok) == [tok EXCEPT !.bearer = FALSE]

\* The call ends in out; a dependency that made it goes on to its response
\* without suspending.
finish_call(rec, out) ==
    [rec EXCEPT !.pc = "done", !.result = out,
                !.response = dependency_response(rec, out)]

\* verify_token_with_retry's try/except around the first verify_token, and
\* the plain propagation everywhere else: a frame whose attempt ended in out.
finish_attempt(rec, out) ==
    IF rec.op = "verify_token_with_retry" /\ rec.attempt = 1 /\ should_retry(out)
    THEN [rec EXCEPT !.pc = "acquire", !.mode = "refresh",
                     !.refreshes = @ + 1]
    ELSE finish_call(rec, out)

\* verify_token looking at the token's header before it asks for the key set
begin_verify_inspects_first(rec) ==
    LET r == [rec EXCEPT !.attempt = @ + 1]
        h == get_signing_key(strip_bearer(r.token), NoneJwks) IN
    IF r.token.empty
    THEN finish_attempt(r, Raise("InvalidTokenError", <<"Token", "is", "empty">>))
    ELSE IF h.err.kind = "InvalidTokenError"
    THEN finish_attempt(r, h.err)
    ELSE [r EXCEPT !.pc = "acquire", !.mode = "get"]

\* verify_token without the test of lines 215-216
begin_verify_no_empty_test(rec) ==
    [rec EXCEPT !.attempt = @ + 1, !.pc = "acquire", !.mode = "get"]

\* verify_token lines 215-223: reject the empty string, else call get_jwks
begin_verify(rec) ==
    LET r == [rec EXCEPT !.attempt = @ + 1] IN
    IF r.token.empty
    THEN finish_attempt(r, Raise("InvalidTokenError", <<"Token", "is", "empty">>))
    ELSE [r EXCEPT !.pc = "acquire", !.mode = "get"]

\* get_jwks has returned j (from src) to the frame.  In verify_token the
\* value is a local that is dead once the attempt ends; get_jwks called
\* directly hands it to the caller.
after_get_jwks(rec, j, src) ==
    IF rec.op = "get_jwks"
    THEN [rec EXCEPT !.pc = "done", !.jwks = j, !.src = src,
                     !.result = Raise("jwks", <<>>)]
    ELSE LET v == verify_with_jwks(strip_bearer(rec.token), j, rec.opts) IN
         finish_attempt([rec EXCEPT !.src = src,
                                    !.resolves = @ + 1,
                                    !.misses = @ + (IF v.missed THEN 1 ELSE 0),
                                    !.compares = v.compares,
                                    !.decodes = @ + (IF v.decoded THEN 1 ELSE 0),
                                    !.payload = v.payload],
                        v.out)

\* refresh_jwks has returned j to the frame
after_refresh_jwks(rec, j) ==
    IF rec.op = "refresh_jwks"
    THEN [rec EXCEPT !.pc = "done", !.jwks = j, !.src = "fetch",
                     !.result = Raise("jwks", <<>>)]
    ELSE begin_verify(rec)

\* The queue after caller c has run to its next suspension as frame rec
Requeue(q, c, rec) == IF rec.pc = "acquire" THEN Append(q, c) ELSE q

\* ----------------------------------------------------------------- actions
start_get_jwks(c) ==
    /\ call[c].pc = "idle" /\ calls < MaxCalls
    /\ calls' = calls + 1
    /\ call' = [call EXCEPT ![c] = [IdleCall EXCEPT !.pc = "acquire",
                                        !.op = "get_jwks", !.mode = "get",
                                        !.cold = (jwks_cache = NoneJwks)]]
    /\ lock_waiters' = Append(lock_waiters, c)
    /\ UNCHANGED <<backend_vars, middleware_vars, config, model_call, jwks_cache, jwks_cache_expires, cache_lock, now, provider>>

start_refresh_jwks(c) ==
    /\ call[c].pc = "idle" /\ calls < MaxCalls
    /\ calls' = calls + 1
    /\ call' = [call EXCEPT ![c] = [IdleCall EXCEPT !.pc = "acquire",
                                        !.op = "refresh_jwks", !.mode = "refresh",
                                        !.refreshes = 1,
                                        !.busy = (cache_lock # 0)]]
    /\ lock_waiters' = Append(lock_waiters, c)
    /\ UNCHANGED <<backend_vars, middleware_vars, config, model_call, jwks_cache, jwks_cache_expires, cache_lock, now, provider>>

start_verify(c, op, tok, opts) ==
    /\ call[c].pc = "idle" /\ calls < MaxCalls
    /\ calls' = calls + 1
    /\ LET rec == begin_verify([IdleCall EXCEPT
                                !.op = op, !.token = tok, !.opts = opts,
                                !.healable =
                                    (Scan(KeysOf(provider), tok.kid, 1) # 0)]) IN
       /\ call' = [call EXCEPT ![c] = rec]
       /\ lock_waiters' = Requeue(lock_waiters, c, rec)
    /\ UNCHANGED <<backend_vars, middleware_vars, config, model_call, jwks_cache, jwks_cache_expires, cache_lock, now, provider>>

verify_token(c, toks) ==
    \E tok \in toks : start_verify(c, "verify_token", tok, DefaultOpts)

verify_token_with_retry(c, toks) ==
    \E tok \in toks : start_verify(c, "verify_token_with_retry", tok, DefaultOpts)

\* verify_token(token, verify_exp=..., verify_iss=..., verify_aud=...)
verify_token_options(c, toks, optset) ==
    \E tok \in toks, opts \in optset : start_verify(c, "verify_token", tok, opts)

\* CanAcquire without the test that the lock is free
CanAcquire_ignores_holder(c) ==
    /\ call[c].pc = "acquire"
    /\ lock_waiters # <<>> /\ Head(lock_waiters) = c

\* `async with self._cache_lock` is entered by the head of the queue when the
\* lock is free
CanAcquire(c) ==
    /\ call[c].pc = "acquire"
    /\ cache_lock = 0
    /\ lock_waiters # <<>> /\ Head(lock_waiters) = c

\* the cache test without the comparison with the clock
CacheValid_ignores_expiry ==
    /\ Truthy(jwks_cache)
    /\ jwks_cache_expires # NoExpiry

\* the cache test with `is not None` in place of truthiness
CacheValid_tests_not_none ==
    /\ jwks_cache # NoneJwks
    /\ jwks_cache_expires # NoExpiry
    /\ now < jwks_cache_expires

\* get_jwks lines 98-100
CacheValid ==
    /\ Truthy(jwks_cache)
    /\ jwks_cache_expires # NoExpiry
    /\ now < jwks_cache_expires

\* get_jwks, cache hit: return the cached value, leave the lock
get_jwks_cached(c) ==
    /\ CanAcquire(c) /\ call[c].mode = "get"
    /\ CacheValid
    /\ LET rec == after_get_jwks(call[c], jwks_cache, "cache") IN
       /\ call' = [call EXCEPT ![c] = rec]
       /\ lock_waiters' = Requeue(Tail(lock_waiters), c, rec)
    /\ UNCHANGED <<backend_vars, middleware_vars, config, model_call, jwks_cache, jwks_cache_expires, cache_lock, now, provider, calls>>

\* get_jwks, no usable cache: _fetch_jwks issues the GET under the lock
get_jwks_fetch(c) ==
    /\ CanAcquire(c) /\ call[c].mode = "get"
    /\ ~CacheValid
    /\ cache_lock' = c
    /\ lock_waiters' = Tail(lock_waiters)
    /\ call' = [call EXCEPT ![c].pc = "fetching", ![c].fetches = @ + 1]
    /\ UNCHANGED <<backend_vars, middleware_vars, config, model_call, jwks_cache, jwks_cache_expires, now, provider, calls>>

\* a refresh that is satisfied by a cache still within its TTL
refresh_jwks_reuses_valid_cache(c) ==
    /\ CanAcquire(c) /\ call[c].mode = "refresh"
    /\ IF CacheValid
       THEN LET rec == after_refresh_jwks(call[c], jwks_cache) IN
            /\ call' = [call EXCEPT ![c] = rec]
            /\ lock_waiters' = Requeue(Tail(lock_waiters), c, rec)
            /\ UNCHANGED cache_lock
       ELSE /\ cache_lock' = c
            /\ lock_waiters' = Tail(lock_waiters)
            /\ call' = [call EXCEPT ![c].pc = "fetching", ![c].fetches = @ + 1]
    /\ UNCHANGED <<backend_vars, middleware_vars, config, model_call, jwks_cache, jwks_cache_expires, now, provider, calls>>

\* refresh_jwks: _fetch_jwks under the lock, whatever the cache holds
refresh_jwks(c) ==
    /\ CanAcquire(c) /\ call[c].mode = "refresh"
    /\ cache_lock' = c
    /\ lock_waiters' = Tail(lock_waiters)
    /\ call' = [call EXCEPT ![c].pc = "fetching", ![c].fetches = @ + 1]
    /\ UNCHANGED <<backend_vars, middleware_vars, config, model_call, jwks_cache, jwks_cache_expires, now, provider, calls>>

\* a swap that adds the fetched keys to the cached ones
fetch_jwks_ok_merges_keys(c) ==
    /\ call[c].pc = "fetching"
    /\ jwks_cache' =
          IF Truthy(jwks_cache) /\ Truthy(provider)
          THEN KeySet(jwks_cache.keys \o
                      SelectSeq(provider.keys,
                                LAMBDA k : Scan(jwks_cache.keys, k, 1) = 0))
          ELSE provider
    /\ jwks_cache_expires' = now + jwks_cache_ttl
    /\ cache_lock' = 0
    /\ LET rec == IF call[c].mode = "get"
                  THEN after_get_jwks(call[c], provider, "fetch")
                  ELSE after_refresh_jwks(call[c], provider) IN
       /\ call' = [call EXCEPT ![c] = rec]
       /\ lock_waiters' = Requeue(lock_waiters, c, rec)
    /\ UNCHANGED <<backend_vars, middleware_vars, config, model_call, now, provider, calls>>

\* _fetch_jwks lines 134-144: the GET answered 200 with JSON; swap cache and
\* expiry, leave the lock, carry on in the caller
fetch_jwks_ok(c) ==
    /\ call[c].pc = "fetching"
    /\ jwks_cache' = provider
    /\ jwks_cache_expires' = now + jwks_cache_ttl
    /\ cache_lock' = 0
    /\ LET rec == IF call[c].mode = "get"
                  THEN after_get_jwks(call[c], provider, "fetch")
                  ELSE after_refresh_jwks(
                          [call[c] EXCEPT !.refreshed = provider,
                                          !.refreshed_expires = now + jwks_cache_ttl],
                          provider) IN
       /\ call' = [call EXCEPT ![c] = rec]
       /\ lock_waiters' = Requeue(lock_waiters, c, rec)
    /\ UNCHANGED <<backend_vars, middleware_vars, config, model_call, now, provider, calls>>

\* _fetch_jwks lines 146-149: the GET failed (transport error or status, an
\* httpx.HTTPError) or the body was not JSON (any other exception)
FetchFailures ==
    { <<"Failed", "to", "fetch", "JWKS">>, <<"Unexpected", "error", "fetching", "JWKS">> }

\* a failed GET that also drops what was cached
fetch_jwks_fail_drops_cache(c) ==
    /\ call[c].pc = "fetching"
    /\ cache_lock' = 0
    /\ jwks_cache' = NoneJwks
    /\ jwks_cache_expires' = NoExpiry
    /\ \E msg \in FetchFailures :
          call' = [call EXCEPT ![c].pc = "done",
                               ![c].result = Raise("JWKSFetchError", msg)]
    /\ UNCHANGED <<backend_vars, middleware_vars, config, model_call, lock_waiters, now, provider, calls>>

\* a failed GET that leaves `async with self._cache_lock` without releasing
fetch_jwks_fail_keeps_lock(c) ==
    /\ call[c].pc = "fetching"
    /\ \E msg \in FetchFailures :
          call' = [call EXCEPT ![c].pc = "done",
                               ![c].result = Raise("JWKSFetchError", msg)]
    /\ UNCHANGED <<backend_vars, middleware_vars, config, model_call, jwks_cache, jwks_cache_expires, cache_lock,
                   lock_waiters, now, provider, calls>>

fetch_jwks_fail(c) ==
    /\ call[c].pc = "fetching"
    /\ cache_lock' = 0
    /\ \E msg \in FetchFailures :
          call' = [call EXCEPT ![c] =
                      finish_call(call[c], Raise("JWKSFetchError", msg))]
    /\ UNCHANGED <<backend_vars, middleware_vars, config, model_call, jwks_cache, jwks_cache_expires, lock_waiters, now, provider, calls>>

\* TokenPayload.from_claims(claims) called by application code
TokenPayload_from_claims(shapes) ==
    /\ \E claims \in shapes :
          model_call' = [fn |-> "from_claims", arg |-> claims,
                         result |-> from_claims(claims)]
    /\ UNCHANGED <<backend_vars, middleware_vars, config, jwks_cache, jwks_cache_expires, cache_lock,
                   lock_waiters, now, provider, calls, call>>

\* The objects application code asks about roles: the TokenPayload built from
\* claims whose realm_access.roles is the list rs, and the AuthUser built
\* from that payload.
RoleHolder(class, rs) ==
    LET payload == from_claims(WithClaim(ClaimsOf(TRUE, TRUE, AudWeb),
                                         "realm_access",
                                         JDict([roles |-> JList(rs)]))) IN
    IF class = "TokenPayload" THEN payload
    ELSE from_token_payload(payload, "raw")

\* self.has_role(role).  The role helpers are pure: one call per behaviour,
\* on any object and with any argument, covers them.
call_has_role(lists, names) ==
    /\ model_call = NoModelCall
    /\ \E class \in {"TokenPayload", "AuthUser"}, rs \in lists, role \in names :
          model_call' = [fn |-> "has_role", class |-> class,
                         self |-> RoleHolder(class, rs), arg |-> role,
                         result |-> has_role(RoleHolder(class, rs), role)]
    /\ UNCHANGED <<backend_vars, middleware_vars, config, jwks_cache, jwks_cache_expires, cache_lock,
                   lock_waiters, now, provider, calls, call>>

\* self.has_any_role(roles)
call_has_any_role(lists, queries) ==
    /\ model_call = NoModelCall
    /\ \E class \in {"TokenPayload", "AuthUser"}, rs \in lists, q \in queries :
          model_call' = [fn |-> "has_any_role", class |-> class,
                         self |-> RoleHolder(class, rs), arg |-> q,
                         result |-> has_any_role(RoleHolder(class, rs), q)]
    /\ UNCHANGED <<backend_vars, middleware_vars, config, jwks_cache, jwks_cache_expires, cache_lock,
                   lock_waiters, now, provider, calls, call>>

\* self.has_all_roles(roles)
call_has_all_roles(lists, queries) ==
    /\ model_call = NoModelCall
    /\ \E class \in {"TokenPayload", "AuthUser"}, rs \in lists, q \in queries :
          model_call' = [fn |-> "has_all_roles", class |-> class,
                         self |-> RoleHolder(class, rs), arg |-> q,
                         result |-> has_all_roles(RoleHolder(class, rs), q)]
    /\ UNCHANGED <<backend_vars, middleware_vars, config, jwks_cache, jwks_cache_expires, cache_lock,
                   lock_waiters, now, provider, calls, call>>

\* require_auth(config) and optional_auth(config), lines 85-86 and 190-191:
\* the factory asks _get_verifier for the verifier its dependency will use.
\* The verifier is named by its key in _verifier_cache.
create_dependency(factory, cfg) ==
    /\ Len(dependencies) < MaxDependencies
    /\ verifier_cache' = get_verifier_cache(cfg)
    /\ dependencies' = Append(dependencies,
                              [factory |-> factory, config |-> cfg,
                               verifier |-> config_hash(cfg)])
    /\ UNCHANGED <<backend_vars, config, model_call, jwks_cache,
                   jwks_cache_expires, cache_lock, lock_waiters, now,
                   provider, calls, call>>

require_auth(cfgs) == \E cfg \in cfgs : create_dependency("require_auth", cfg)

optional_auth(cfgs) == \E cfg \in cfgs : create_dependency("optional_auth", cfg)

\* A request reaches a dependency made by require_auth or optional_auth.
\* The dependency finds no token to verify and answers at once (response),
\* or awaits verifier.verify_token_with_retry(token).
run_dependency(c, dep, header, required_roles, any_role, response) ==
    /\ call[c].pc = "idle" /\ calls < MaxCalls
    /\ calls' = calls + 1
    /\ LET frame == [IdleCall EXCEPT !.dep = dep, !.token = header.token,
                                     !.required_roles = required_roles,
                                     !.any_role = any_role]
           rec == IF response # NoResponse
                  THEN [frame EXCEPT !.pc = "done", !.response = response]
                  ELSE begin_verify(
                          [frame EXCEPT
                              !.op = "verify_token_with_retry",
                              !.healable =
                                  (Scan(KeysOf(provider), header.token.kid, 1) # 0)]) IN
       /\ call' = [call EXCEPT ![c] = rec]
       /\ lock_waiters' = Requeue(lock_waiters, c, rec)
    /\ UNCHANGED <<backend_vars, middleware_vars, config, model_call, jwks_cache,
                   jwks_cache_expires, cache_lock, now, provider>>

\* require_auth's dependency, lines 93-112: the token of the request, or 401
require_auth_dependency(c, headers, requirements) ==
    \E header \in headers, req \in requirements :
        run_dependency(c, "require_auth", header, req.roles, req.any_role,
            IF header.kind = "absent"
            THEN HTTPException(401, "Missing authorization header")
            ELSE IF header.kind # "bearer"
            THEN HTTPException(401, "Invalid authorization header format")
            ELSE NoResponse)

\* optional_auth's dependency, lines 198-208: the token of the request, or
\* None when there is none or it is the empty string
optional_auth_dependency(c, headers) ==
    \E header \in headers :
        run_dependency(c, "optional_auth", header, <<>>, FALSE,
            IF header.kind # "bearer" \/ header.token.empty
            THEN NoneResponse
            ELSE NoResponse)

\* require_roles' dependency on a request that require_auth's dependency
\* has authenticated
require_roles_dependency(c, requirements) ==
    /\ call[c].pc = "done" /\ call[c].dep = "require_auth"
    /\ call[c].response.kind = "AuthUser"
    /\ call[c].role_check = NoResponse
    /\ \E req \in requirements :
          call' = [call EXCEPT ![c].role_check =
                      [kind |-> "require_roles", roles |-> req.roles,
                       any_role |-> req.any_role,
                       response |->
                           require_roles_response(call[c].state, req.roles,
                                                  req.any_role)]]
    /\ UNCHANGED <<backend_vars, middleware_vars, config, model_call, jwks_cache,
                   jwks_cache_expires, cache_lock, lock_waiters, now,
                   provider, calls>>

\* register calls made so far by callers 1..k
RECURSIVE Registrations(_)
Registrations(k) ==
    IF k = 0 THEN 0 ELSE register_call[k].n + Registrations(k - 1)

\* AuthService.register(email, password) is called (auth_service.py line 73:
\* the call suspends in exists_by_email's query)
register(c, emails) ==
    /\ register_call[c].pc = "idle"
    /\ Registrations(NumCallers) < MaxRegistrations
    /\ \E email \in emails :
          register_call' = [register_call EXCEPT ![c] =
              [IdleRegister EXCEPT !.pc = "exists", !.email = email,
                                   !.password = "pw", !.n = register_call[c].n + 1,
                                   !.taken = (RowsWithEmail(users, email) # {})]]
    /\ UNCHANGED <<middleware_vars, config, model_call, jwks_cache,
                   jwks_cache_expires, cache_lock, lock_waiters, now,
                   provider, calls, call, users>>

\* exists_by_email answers (sqlite_user_repository.py lines 98-100);
\* register raises EmailAlreadyExistsError or draws the id, hashes the
\* password and suspends in create's commit (auth_service.py lines 73-81)
exists_by_email(c) ==
    /\ register_call[c].pc = "exists"
    /\ LET r == register_call[c] IN
       register_call' = [register_call EXCEPT ![c] =
          IF RowsWithEmail(users, r.email) # {}
          THEN [r EXCEPT !.pc = "done", !.result = "EmailAlreadyExistsError"]
          ELSE [r EXCEPT !.pc = "create", !.user_id = uuid4(c, r.n)]]
    /\ UNCHANGED <<middleware_vars, config, model_call, jwks_cache,
                   jwks_cache_expires, cache_lock, lock_waiters, now,
                   provider, calls, call, users>>

\* create's INSERT and commit (sqlite_user_repository.py lines 76-86).  The
\* email column is unique (user.py line 24): the INSERT of an email that is
\* in the table fails with the database's IntegrityError, which nothing
\* between the repository and the route catches.
create(c) ==
    /\ register_call[c].pc = "create"
    /\ IF RowsWithEmail(users, register_call[c].email) # {}
       THEN /\ register_call' = [register_call EXCEPT
                                    ![c].pc = "done",
                                    ![c].result = "IntegrityError"]
            /\ UNCHANGED users
       ELSE /\ users' = Append(users,
                               [id |-> register_call[c].user_id,
                                email |-> register_call[c].email,
                                password |-> hash_password(register_call[c].password)])
            /\ register_call' = [register_call EXCEPT
                                    ![c].pc = "done",
                                    ![c].result = "Account created"]
    /\ UNCHANGED <<middleware_vars, config, model_call, jwks_cache,
                   jwks_cache_expires, cache_lock, lock_waiters, now,
                   provider, calls, call>>

\* the route has answered; the caller is free for another request
register_return(c) ==
    /\ register_call[c].pc = "done"
    /\ register_call' = [register_call EXCEPT ![c] =
                            [IdleRegister EXCEPT !.n = register_call[c].n]]
    /\ UNCHANGED <<middleware_vars, config, model_call, jwks_cache,
                   jwks_cache_expires, cache_lock, lock_waiters, now,
                   provider, calls, call, users>>

\* the caller takes the result and is free for another call
Return(c) ==
    /\ call[c].pc = "done"
    /\ call' = [call EXCEPT ![c] = IdleCall]
    /\ UNCHANGED <<backend_vars, middleware_vars, config, model_call, jwks_cache, jwks_cache_expires, cache_lock, lock_waiters, now,
                   provider, calls>>

\* ------------------------------------------------------------- environment
\* The provider rotates its keys.  Only a GET observes the provider, so a
\* rotation is placed while one is in flight (the request is answered at some
\* moment between its start and its completion).
Rotate ==
    /\ \E c \in Callers : call[c].pc = "fetching"
    /\ \E r \in ProviderResponses \ {provider} : provider' = r
    /\ UNCHANGED <<backend_vars, middleware_vars, config, model_call, jwks_cache, jwks_cache_expires, cache_lock, lock_waiters, now,
                   calls, call>>

\* A rotation with a grace period: the provider publishes a new key next to
\* the ones it already publishes, and withdraws none.
RotateAdd ==
    /\ \E c \in Callers : call[c].pc = "fetching"
    /\ \E r \in ProviderResponses \ {provider} :
          /\ \A i \in 1..Len(KeysOf(provider)) :
                Scan(KeysOf(r), KeysOf(provider)[i], 1) # 0
          /\ provider' = r
    /\ UNCHANGED <<backend_vars, middleware_vars, config, model_call, jwks_cache, jwks_cache_expires, cache_lock, lock_waiters, now,
                   calls, call>>

\* The clock advances while a GET is in flight or while no call is running;
\* the stretches of code between two awaits take no time.
Tick ==
    /\ now < MaxTime
    /\ \/ \E c \in Callers : call[c].pc = "fetching"
       \/ \A c \in Callers : call[c].pc \in {"idle", "done"}
    /\ now' = now + 1
    /\ UNCHANGED <<backend_vars, middleware_vars, config, model_call, jwks_cache, jwks_cache_expires, cache_lock, lock_waiters,
                   provider, calls, call>>

\* What a caller inside a call does next
Step(c) ==
    \/ get_jwks_cached(c)
    \/ get_jwks_fetch(c)
    \/ refresh_jwks(c)
    \/ fetch_jwks_ok(c)
    \/ fetch_jwks_fail(c)
    \/ Return(c)

\* Every caller may call any of the four public methods.  The empty token is
\* rejected before the cache is touched; a well-formed token with kid k2 is
\* resolved at once or sends the call through the refresh, depending on what
\* the cache holds.
CoreTokens ==
    { EmptyToken, Good("k2") }

Next ==
    \/ \E c \in Callers : start_get_jwks(c)
    \/ \E c \in Callers : start_refresh_jwks(c)
    \/ \E c \in Callers : verify_token(c, CoreTokens)
    \/ \E c \in Callers : verify_token_with_retry(c, CoreTokens)
    \/ \E c \in Callers : Step(c)
    \/ Rotate
    \/ Tick

Spec == Init /\ [][Next]_vars

\* The cache alone: callers use get_jwks and refresh_jwks directly.
NextCache ==
    \/ \E c \in Callers : start_get_jwks(c)
    \/ \E c \in Callers : start_refresh_jwks(c)
    \/ \E c \in Callers : Step(c)
    \/ Rotate
    \/ Tick

SpecCache == Init /\ [][NextCache]_vars

\* The same with the event loop's scheduling: a task that can run is run, and
\* a GET in flight ends (httpx answers, fails or times out).
SpecCacheFair == SpecCache /\ \A c \in Callers : WF_vars(Step(c))

\* One caller at a time, every kind of token.
NextSerial ==
    \/ start_get_jwks(1)
    \/ start_refresh_jwks(1)
    \/ verify_token(1, Tokens)
    \/ verify_token_with_retry(1, Tokens)
    \/ Step(1)
    \/ Rotate
    \/ Tick

SpecSerial == Init /\ [][NextSerial]_vars

\* Verification while the provider rotates its keys in, concurrently with
\* other verifications and forced refreshes.
RotationTokens ==
    { Good("k2"), Good("k3") }

NextRotation ==
    \/ \E c \in Callers : start_refresh_jwks(c)
    \/ \E c \in Callers : verify_token(c, RotationTokens)
    \/ \E c \in Callers : verify_token_with_retry(c, RotationTokens)
    \/ \E c \in Callers : Step(c)
    \/ RotateAdd
    \/ Tick

SpecRotation == Init /\ [][NextRotation]_vars

\* One caller verifying well-formed RS256 tokens (kid k1) with every
\* combination of signature, exp, iss and aud outcomes and of the keyword
\* arguments of verify_token.
ValidatorTokens ==
    { Tok(FALSE, FALSE, TRUE, RS256, "k1", s, e, i, a) :
        s \in BOOLEAN, e \in BOOLEAN, i \in BOOLEAN,
        a \in {AudAbsent, AudWeb, AudOther} }

AllOpts ==
    { Opts(e, i, a) : e \in BOOLEAN, i \in BOOLEAN, a \in {"None", "True", "False"} }

NextOptions ==
    \/ verify_token_options(1, ValidatorTokens, AllOpts)
    \/ start_refresh_jwks(1)
    \/ Step(1)
    \/ Rotate
    \/ Tick

SpecOptions == Init /\ [][NextOptions]_vars

\* One caller verifying correctly signed tokens under every configuration of
\* the audience, with every aud claim and every combination of the keyword
\* arguments.
InitAudience ==
    /\ config \in Configs
    /\ model_call = NoModelCall
    /\ verifier_cache = <<>>
    /\ dependencies = <<>>
    /\ users = <<>>
    /\ register_call = [c \in Callers |-> IdleRegister]
    /\ jwks_cache = NoneJwks
    /\ jwks_cache_expires = NoExpiry
    /\ cache_lock = 0
    /\ lock_waiters = <<>>
    /\ now = 0
    /\ provider \in ProviderResponses
    /\ calls = 0
    /\ call = [c \in Callers |-> IdleCall]

AudienceTokens ==
    { Tok(FALSE, FALSE, TRUE, RS256, "k1", TRUE, e, i, a) :
        e \in BOOLEAN, i \in BOOLEAN, a \in Auds }

NextAudience ==
    \/ verify_token_options(1, AudienceTokens, AllOpts)
    \/ start_refresh_jwks(1)
    \/ Step(1)

SpecAudience == InitAudience /\ [][NextAudience]_vars

\* One caller verifying tokens that differ in their claims: the subject, an
\* email, realm roles; next to them tokens that fail at each stage.
PayloadClaims ==
    LET base == ClaimsOf(TRUE, TRUE, AudWeb) IN
    { [c EXCEPT !.sub = sub] :
        sub \in {"u1", "u2"},
        c \in { base,
                WithClaim(base, "email", "a@example.org"),
                WithClaim(base, "realm_access",
                          JDict([roles |-> JList(<<"admin", "viewer">>)])),
                WithClaim(WithClaim(base, "email", "a@example.org"),
                          "roles", JList(<<"editor">>)) } }

PayloadTokens ==
    { [Good("k1") EXCEPT !.claims = cl] : cl \in PayloadClaims }
    \cup { EmptyToken, Garbage, Good("k3"), WithAlg(<<"none">>, "k1"),
           Tok(FALSE, FALSE, TRUE, RS256, "k1", FALSE, TRUE, TRUE, AudWeb),
           Tok(FALSE, FALSE, TRUE, RS256, "k1", TRUE, FALSE, TRUE, AudWeb),
           Tok(FALSE, FALSE, TRUE, RS256, "k1", TRUE, TRUE, FALSE, AudWeb),
           Tok(FALSE, FALSE, TRUE, RS256, "k1", TRUE, TRUE, TRUE, AudOther) }

NextPayload ==
    \/ verify_token(1, PayloadTokens)
    \/ verify_token_with_retry(1, PayloadTokens)
    \/ Step(1)
    \/ Rotate
    \/ Tick

SpecPayload == Init /\ [][NextPayload]_vars

\* models.py alone: from_claims on claim sets of every shape of realm_access
\* and of the top-level roles claim.
RealmAccessShapes ==
    { JNull, JDict(<<>>), JDict([roles |-> JList(<<>>)]),
      JDict([roles |-> JList(<<"admin", "viewer">>)]),
      JDict([roles |-> JList(<<"viewer", "admin">>)]),
      JDict([roles |-> JStr("admin")]),
      JDict([other |-> JList(<<"admin">>)]),
      JStr("abc"), JStr("no-roles"), JList(<<"roles">>), JList(<<"x">>) }

RolesShapes ==
    { JNull, JList(<<>>), JList(<<"editor">>), JList(<<"viewer", "editor">>),
      JStr("admin"), JDict([admin |-> JStr("yes")]) }

ClaimShapes ==
    LET base == ClaimsOf(TRUE, TRUE, AudWeb)
        withRealm == { base } \cup
                     { WithClaim(base, "realm_access", ra) : ra \in RealmAccessShapes } IN
    withRealm \cup { WithClaim(c, "roles", r) : c \in withRealm, r \in RolesShapes }

NextModels ==
    TokenPayload_from_claims(ClaimShapes)

SpecModels == Init /\ [][NextModels]_vars

\* models.py alone: the role helpers on every role list of up to MaxRoles
\* names and every query of up to two names.  Two of the names differ in
\* case only.
MaxRoles == 3
RoleNames == { "admin", "Admin", "viewer", "editor" }
ListsUpTo(n) == UNION { [1..k -> RoleNames] : k \in 0..n }
RoleLists == ListsUpTo(MaxRoles)
RoleQueries == ListsUpTo(2)

NextRoles ==
    \/ call_has_role(RoleLists, RoleNames)
    \/ call_has_any_role(RoleLists, RoleQueries)
    \/ call_has_all_roles(RoleLists, RoleQueries)

SpecRoles == Init /\ [][NextRoles]_vars

\* middleware.py: requests reaching the dependencies, one at a time, with
\* every kind of Authorization header
Headers ==
    { NoHeader, BasicHeader } \cup { Bearer(tok) : tok \in PayloadTokens }

RoleRequirements ==
    { [roles |-> <<>>, any_role |-> FALSE],
      [roles |-> <<"admin">>, any_role |-> FALSE],
      [roles |-> <<"admin", "editor">>, any_role |-> FALSE],
      [roles |-> <<"admin", "editor">>, any_role |-> TRUE] }

NextOptional ==
    \/ optional_auth_dependency(1, Headers)
    \/ Step(1)
    \/ Rotate
    \/ Tick

SpecOptional == Init /\ [][NextOptional]_vars

NextRequire ==
    \/ require_auth_dependency(1, Headers, RoleRequirements)
    \/ require_roles_dependency(1, RoleRequirements)
    \/ Step(1)
    \/ Rotate
    \/ Tick

SpecRequire == Init /\ [][NextRequire]_vars

\* middleware.py: dependencies created for provider configurations
NextVerifiers ==
    \/ require_auth(ProviderConfigs)
    \/ optional_auth(ProviderConfigs)

SpecVerifiers == Init /\ [][NextVerifiers]_vars

\* backend: concurrent registrations
Emails == { "a@example.org", "b@example.org" }

NextRegister ==
    \/ \E c \in Callers : register(c, Emails)
    \/ \E c \in Callers : exists_by_email(c)
    \/ \E c \in Callers : create(c)
    \/ \E c \in Callers : register_return(c)

SpecRegister == Init /\ [][NextRegister]_vars

\* ================================================================== claims
Frames(op) == { c \in Callers : call[c].op = op }
KeyNotFound(res) ==
    res.kind = "JWKSVerificationError" /\ Contains(res.msg, Phrase)
Malformed(tok) == tok.empty \/ ~tok.header_ok \/ tok.alg # RS256

\* C1: a verify_token_with_retry call whose token's kid is missing from the
\* key set it resolves against makes exactly one forced refresh and at most
\* two key resolutions, ends in key-not-found when the second resolution
\* misses too, and, as the first call on a fresh verifier, issues exactly two
\* GETs.
C1_OneRefreshTwoFetches ==
    \A c \in Frames("verify_token_with_retry") :
        LET f == call[c] IN
        (f.pc = "done" /\ f.misses >= 1) =>
            /\ f.refreshes = 1
            /\ f.resolves <= 2
            /\ (f.misses = 2 => KeyNotFound(f.result))
            /\ (calls = 1 => f.fetches = 2)

\* C2: get_jwks calls that all started on the empty cache and all returned a
\* key set were served by one GET in total and returned the same key set.
C2_ColdGetsShareOneFetch ==
    LET G == { c \in Frames("get_jwks") : call[c].cold } IN
    (/\ G # {}
     /\ calls = Cardinality(G)
     /\ \A c \in G : call[c].pc = "done" /\ call[c].result.kind = "jwks")
    => /\ \E c \in G : /\ call[c].fetches = 1
                       /\ \A d \in G \ {c} : call[d].fetches = 0
       /\ \A c, d \in G : call[c].jwks = call[d].jwks

\* C3: a refresh_jwks call made while a GET is in flight issues no GET of its
\* own.
C3_RefreshReusesInFlightFetch ==
    \A c \in Frames("refresh_jwks") :
        (call[c].busy /\ call[c].pc = "done") => call[c].fetches = 0

\* C4: at most one GET is in flight, its issuer holds the lock, and while a
\* caller is between its staleness check and its swap nobody else changes the
\* cache or its expiry.
InFlight == { c \in Callers : call[c].pc = "fetching" }

C4_Exclusion ==
    /\ Cardinality(InFlight) <= 1
    /\ \A c \in InFlight : cache_lock = c
    /\ cache_lock # 0 => cache_lock \in InFlight

C4_NoInterleaving ==
    \A c \in Callers :
        (call[c].pc = "fetching" /\ call'[c].pc = "fetching")
            => UNCHANGED <<jwks_cache, jwks_cache_expires, cache_lock>>

C4_SingleCriticalSection == [](C4_Exclusion) /\ [][C4_NoInterleaving]_vars

\* a verification is fetching while another call waits for the lock
C4_Witness ==
    \E c, d \in Callers :
        /\ call[c].pc = "fetching" /\ call[c].op = "verify_token_with_retry"
        /\ call[c].mode = "refresh"
        /\ call[d].pc = "acquire" /\ call[d].op = "verify_token"
        /\ lock_waiters = <<d>>

VerifyFrames == Frames("verify_token") \cup Frames("verify_token_with_retry")

\* C5: whatever a verification call raises is a JWKSVerificationError; a
\* failed fetch of the key set does not reach the caller as JWKSFetchError.
C5_FetchFailureIsWrapped ==
    \A c \in VerifyFrames :
        call[c].pc = "done" =>
            \/ call[c].result.kind = "TokenPayload"
            \/ IsVerificationError(call[c].result.kind)

\* C6, first half: a verify_token_with_retry call whose first attempt is
\* refused by the validator (signature, expiry, issuer, audience) ends there,
\* without refresh and without second attempt.
ValidatorErrors ==
    { "InvalidSignatureError", "TokenExpiredError", "InvalidIssuerError",
      "InvalidAudienceError" }

C6_ValidatorFailuresNeverRetry ==
    \A c \in Frames("verify_token_with_retry") :
        LET f == call[c] IN
        (f.pc = "done" /\ f.result.kind \in ValidatorErrors /\ f.misses = 0)
            => f.refreshes = 0 /\ f.attempt = 1 /\ f.fetches <= 1

\* a first attempt refused for its signature, served from the cache
C6_ValidatorFailureReached ==
    \E c \in Frames("verify_token_with_retry") :
        /\ call[c].pc = "done" /\ call[c].result.kind = "InvalidSignatureError"
        /\ call[c].attempt = 1 /\ call[c].src = "cache"

\* C6: the validator's failures never lead to a refresh, and nothing but a
\* key-not-found miss of the resolver ever does.
C6_RefreshOnlyAfterKeyMiss ==
    /\ C6_ValidatorFailuresNeverRetry
    /\ \A c \in Frames("verify_token_with_retry") :
          call[c].refreshes >= 1 => call[c].misses >= 1

\* C7: a verify_token_with_retry call with a malformed token (empty,
\* unparseable header, or any alg other than RS256) makes one attempt and no
\* refresh.
C7_MalformedNeverRetries ==
    \A c \in Frames("verify_token_with_retry") :
        Malformed(strip_bearer(call[c].token))
            => call[c].refreshes = 0 /\ call[c].attempt <= 1

\* C8: when the header declares an alg other than RS256, the resolver compares
\* no key and jwt.decode never runs, and verify_token raises InvalidTokenError
\* whatever the key set holds.
BadAlg(tok) == ~tok.empty /\ tok.header_ok /\ tok.alg # RS256

C8_AlgRejectedBeforeLookup ==
    \A c \in VerifyFrames :
        LET f == call[c] IN
        (BadAlg(f.token) /\ f.resolves >= 1) =>
            /\ f.compares = 0 /\ f.decodes = 0 /\ f.misses = 0
            /\ (f.pc = "done" /\ f.result.kind # "JWKSFetchError")
                  => /\ f.result.kind = "InvalidTokenError"
                     /\ Contains(f.result.msg, <<"Unsupported", "algorithm:">>)
            /\ f.op = "verify_token" => f.pc = "done"

\* an HS256 token naming a kid that the key set holds is refused
C8_Witness ==
    \E c \in Frames("verify_token") :
        /\ call[c].pc = "done" /\ call[c].resolves = 1
        /\ call[c].token = WithAlg(<<"HS256">>, "k1")
        /\ jwks_cache = KeySet(<<"k2", "k1">>)
        /\ call[c].result.kind = "InvalidTokenError"

\* C9: from the moment a call issues its GET nothing but the answer to that
\* GET touches cache and expiry; a GET that fails raises JWKSFetchError and
\* leaves both as they were, a GET that succeeds installs the response; and a
\* get_jwks that finds the cache valid returns it without a GET.
C9_Step(c) ==
    /\ (call[c].pc = "fetching" /\ call'[c].pc = "fetching") =>
          UNCHANGED <<jwks_cache, jwks_cache_expires>>
    /\ (call[c].pc = "fetching" /\ call'[c].pc # "fetching") =>
          \/ /\ call'[c].pc = "done"
             /\ call'[c].result.kind = "JWKSFetchError"
             /\ UNCHANGED <<jwks_cache, jwks_cache_expires>>
          \/ /\ call'[c].result.kind # "JWKSFetchError"
             /\ jwks_cache' = provider
             /\ jwks_cache_expires' = now + jwks_cache_ttl
    /\ (call[c].pc = "acquire" /\ call[c].mode = "get" /\ CacheValid
        /\ call'[c] # call[c]) =>
          /\ call'[c].fetches = call[c].fetches
          /\ call'[c].pc = "done" /\ call'[c].jwks = jwks_cache

C9_FailedFetchKeepsCache == [][\A c \in Callers : C9_Step(c)]_vars

\* a refresh has failed, the cache is still valid, and the next get_jwks is
\* about to be served from it
C9_Witness ==
    \E c, d \in Callers :
        /\ call[c].pc = "done" /\ call[c].op = "refresh_jwks"
        /\ call[c].result.kind = "JWKSFetchError"
        /\ CacheValid
        /\ call[d].op = "get_jwks" /\ CanAcquire(d)

\* C10: get_jwks returns the cached key set only while now is before its
\* expiry, otherwise the response of the GET it issued itself; when that GET
\* fails it raises JWKSFetchError and returns nothing.
C10_Step(c) ==
    (call[c].op = "get_jwks" /\ call[c].pc # "done" /\ call'[c].pc = "done") =>
        LET f == call'[c] IN
        \/ /\ f.result.kind = "jwks" /\ f.src = "cache"
           /\ call[c].pc = "acquire" /\ f.fetches = 0
           /\ f.jwks = jwks_cache /\ f.jwks # NoneJwks
           /\ now < jwks_cache_expires
        \/ /\ f.result.kind = "jwks" /\ f.src = "fetch"
           /\ call[c].pc = "fetching" /\ f.fetches = 1
           /\ f.jwks = provider /\ jwks_cache' = provider
        \/ /\ f.result.kind = "JWKSFetchError"
           /\ call[c].pc = "fetching" /\ f.fetches = 1
           /\ f.jwks = NoneJwks /\ f.src = "none"

C10_GetReturnsFreshOrRaises == [][\A c \in Callers : C10_Step(c)]_vars

\* the cached key set has expired, the GET of a get_jwks call failed, and the
\* call raised instead of returning the expired set
C10_Witness ==
    \E c \in Frames("get_jwks") :
        /\ call[c].pc = "done" /\ call[c].result.kind = "JWKSFetchError"
        /\ Truthy(jwks_cache) /\ jwks_cache_expires # NoExpiry
        /\ now >= jwks_cache_expires
        /\ call[c].jwks = NoneJwks

\* C11: once a key set has been fetched (at T = expiry - TTL), a get_jwks that
\* reads the cache at an instant before the expiry returns the cached value
\* and issues no GET; one that reads it at or after the expiry issues one GET,
\* whose answer replaces the cache.
C11_Step(c) ==
    /\ (/\ call[c].pc = "acquire" /\ call[c].mode = "get"
        /\ call'[c] # call[c]
        /\ jwks_cache # NoneJwks /\ jwks_cache_expires # NoExpiry) =>
          IF now < jwks_cache_expires
          THEN /\ call'[c].fetches = call[c].fetches
               /\ call'[c].pc # "fetching"
               /\ call[c].op = "get_jwks" => call'[c].jwks = jwks_cache
          ELSE /\ call'[c].pc = "fetching"
               /\ call'[c].fetches = call[c].fetches + 1
    /\ (/\ call[c].pc = "fetching" /\ call[c].mode = "get"
        /\ call'[c].pc # "fetching"
        /\ call'[c].result.kind # "JWKSFetchError") =>
          /\ jwks_cache' = provider
          /\ jwks_cache_expires' = now + jwks_cache_ttl

C11_TtlGovernsGetJwks == [][\A c \in Callers : C11_Step(c)]_vars

\* The same, for the cached values that the cache test counts as a cache.
C11_StepTruthy(c) == Truthy(jwks_cache) => C11_Step(c)

C11_TtlGovernsTruthyCache == [][\A c \in Callers : C11_StepTruthy(c)]_vars

\* C12: refresh_jwks issues a GET whatever the cache holds (valid or not), and
\* when the GET succeeds the cache is exactly the response and the expiry is
\* the instant of the swap plus the TTL; refresh_jwks returns that response.
C12_Step(c) ==
    /\ (/\ call[c].pc = "acquire" /\ call[c].mode = "refresh"
        /\ call'[c] # call[c]) =>
          /\ call'[c].pc = "fetching"
          /\ call'[c].fetches = call[c].fetches + 1
    /\ (/\ call[c].pc = "fetching" /\ call[c].mode = "refresh"
        /\ call'[c].pc # "fetching"
        /\ call'[c].result.kind # "JWKSFetchError") =>
          /\ jwks_cache' = provider
          /\ jwks_cache_expires' = now + jwks_cache_ttl
          /\ call[c].op = "refresh_jwks" =>
                call'[c].jwks = provider /\ call'[c].pc = "done"

C12_RefreshAlwaysFetchesAndReplaces == [][\A c \in Callers : C12_Step(c)]_vars

\* a refresh has replaced a key set that was still within its TTL by a
\* response holding fewer keys
C12_Witness ==
    \E c \in Frames("get_jwks"), d \in Frames("refresh_jwks") :
        /\ call[c].pc = "done" /\ call[c].src = "fetch"
        /\ call[c].jwks = KeySet(<<"k2", "k1">>)
        /\ call[d].pc = "done" /\ call[d].fetches = 1
        /\ call[d].jwks = KeySet(<<"k1">>)
        /\ jwks_cache = KeySet(<<"k1">>)
        /\ now = 0 /\ jwks_cache_expires = jwks_cache_ttl

\* C13: in every state the cache is unset together with the expiry, or it is
\* one provider response together with an expiry; and every step that changes
\* one of the two sets both, from one GET: the cache to the response of that
\* GET, the expiry to the instant of the swap plus the TTL.
C13_Paired ==
    \/ jwks_cache = NoneJwks /\ jwks_cache_expires = NoExpiry
    \/ /\ jwks_cache \in ProviderResponses
       /\ jwks_cache_expires \in jwks_cache_ttl .. (MaxTime + jwks_cache_ttl)

C13_SwapIsWhole ==
    \/ UNCHANGED <<jwks_cache, jwks_cache_expires>>
    \/ /\ \E c \in Callers : call[c].pc = "fetching" /\ call'[c].pc # "fetching"
       /\ jwks_cache' = provider
       /\ jwks_cache_expires' = now + jwks_cache_ttl

C13_CacheIsOneResponse == [](C13_Paired) /\ [][C13_SwapIsWhole]_vars

\* a caller waits for the lock while the cache holds the one-key response
\* that replaced the two-key response another caller still holds
C13_Witness ==
    \E c \in Callers, d \in Callers :
        /\ call[c].pc = "acquire"
        /\ call[d].pc = "done" /\ call[d].src = "fetch"
        /\ call[d].jwks = KeySet(<<"k2", "k1">>)
        /\ jwks_cache = KeySet(<<"k1">>)
        /\ jwks_cache_expires # NoExpiry

\* C14: while the provider keeps publishing the key of an otherwise valid
\* token, a verify_token_with_retry whose first attempt misses the key in the
\* cache and whose GETs succeed returns a TokenPayload, whatever else runs on
\* the verifier.
C14_RotationHealsInOneHop ==
    \A c \in Frames("verify_token_with_retry") :
        (/\ call[c].pc = "done"
         /\ call[c].token \in RotationTokens
         /\ call[c].healable
         /\ call[c].misses >= 1
         /\ call[c].result.kind # "JWKSFetchError") =>
            /\ call[c].result = Returned
            /\ call[c].refreshes = 1 /\ call[c].attempt = 2

\* a retry healed a miss on the cached one-key set while another call ran
C14_Witness ==
    \E c \in Frames("verify_token_with_retry"), d \in Callers :
        /\ c # d /\ call[d].pc \in {"acquire", "fetching"}
        /\ call[c].pc = "done" /\ call[c].healable
        /\ call[c].misses = 1 /\ call[c].src = "cache"
        /\ call[c].result = Returned

\* the audience check of the token passes, or is not made
AudPasses(c) ==
    \/ ~EffectiveAud(call[c].opts)
    \/ validate_aud(call[c].token.aud, get_audience(config))

\* the frames of verify_token in which jwt.decode ran
Decoded == { c \in Frames("verify_token") :
               call[c].pc = "done" /\ call[c].decodes = 1 }

\* C15: a token with a valid signature whose exp is in the past fails with
\* TokenExpiredError when verify_exp is on, and yields a TokenPayload when
\* verify_exp is off and the issuer and audience checks pass or are off.
C15_ExpiryFollowsVerifyExp ==
    \A c \in Decoded :
        (call[c].token.sig_ok /\ ~call[c].token.exp_ok) =>
            IF call[c].opts.verify_exp
            THEN call[c].result.kind = "TokenExpiredError"
            ELSE ((call[c].token.iss_ok \/ ~call[c].opts.verify_iss) /\
                  AudPasses(c)) =>
                     call[c].result = Returned

\* The half of C15 with verify_exp on.
C15_ExpiredWhenEnabled ==
    \A c \in Decoded :
        (call[c].token.sig_ok /\ ~call[c].token.exp_ok /\ call[c].opts.verify_exp)
            => call[c].result.kind = "TokenExpiredError"

\* C16: a token that passes the signature and expiry checks and whose iss is
\* not the configured issuer fails with InvalidIssuerError when verify_iss is
\* on; when verify_iss is off the outcome is the one the same token would
\* have with the right iss.
C16_IssuerMismatchIsItsOwnKind ==
    \A c \in Decoded :
        (call[c].token.sig_ok /\ call[c].token.exp_ok /\ ~call[c].token.iss_ok) =>
            IF call[c].opts.verify_iss
            THEN call[c].result.kind = "InvalidIssuerError"
            ELSE call[c].result =
                    decode_and_map([call[c].token EXCEPT !.iss_ok = TRUE],
                                   call[c].opts)

\* The same for the tokens whose audience check passes or is off.
C16_IssuerMismatchAlone ==
    \A c \in Decoded :
        (/\ call[c].token.sig_ok /\ call[c].token.exp_ok /\ ~call[c].token.iss_ok
         /\ AudPasses(c)) =>
            IF call[c].opts.verify_iss
            THEN call[c].result.kind = "InvalidIssuerError"
            ELSE call[c].result = Returned

\* C17: each of the three checks is made exactly when its own switch is on:
\* expiry when verify_exp, issuer when verify_iss, audience when verify_aud
\* is True or is None with the configuration's verify_audience; the expected
\* audience is expected_audience when set, else client_id, and an aud claim
\* (string or list) that does not contain it fails with InvalidAudienceError.
\* A correctly signed token yields a TokenPayload exactly when no check that
\* is on fails, and each error kind only when its own check is on and fails.
C17_AudPerformed(c) ==
    \/ call[c].opts.verify_aud = "True"
    \/ call[c].opts.verify_aud = "None" /\ config.verify_audience

C17_Expected ==
    IF config.expected_audience \notin {NoneStr, ""}
    THEN config.expected_audience
    ELSE config.client_id

C17_AudMismatch(c) ==
    /\ call[c].token.aud.kind \in {"str", "list"}
    /\ \A i \in 1..Len(call[c].token.aud.vals) :
          call[c].token.aud.vals[i] # C17_Expected

C17_Outcome(c, expOn) ==
    LET expFail == expOn /\ ~call[c].token.exp_ok
        issFail == call[c].opts.verify_iss /\ ~call[c].token.iss_ok
        audFail == C17_AudPerformed(c) /\ C17_AudMismatch(c)
        kind == call[c].result.kind IN
    /\ kind \in {"TokenPayload", "TokenExpiredError", "InvalidIssuerError",
                  "InvalidAudienceError"}
    /\ kind = "TokenPayload" <=> ~(expFail \/ issFail \/ audFail)
    /\ kind = "TokenExpiredError" => expFail
    /\ kind = "InvalidIssuerError" => issFail
    /\ kind = "InvalidAudienceError" => audFail

C17_ChecksSwitchedIndependently ==
    \A c \in Decoded : C17_Outcome(c, call[c].opts.verify_exp)

\* The same with the expiry check taken as always on.
C17_AudienceAndIssuerSwitches ==
    \A c \in Decoded : C17_Outcome(c, TRUE)

\* every check that is on passes for the token of frame c
ValidToken(c) ==
    LET tok == call[c].token IN
    /\ ~tok.empty /\ tok.header_ok /\ tok.alg = RS256 /\ tok.sig_ok
    /\ tok.exp_ok
    /\ tok.iss_ok \/ ~call[c].opts.verify_iss
    /\ AudPasses(c)

C19_PayloadOnlyAfterAllStages ==
    \A c \in VerifyFrames :
        /\ call[c].result = Returned =>
              /\ call[c].pc = "done"
              /\ call[c].src \in {"cache", "fetch"}
              /\ call[c].resolves >= 1 /\ call[c].misses < call[c].resolves
              /\ Scan(KeysOf(jwks_cache), call[c].token.kid, 1) # 0
              /\ call[c].decodes >= 1
              /\ ValidToken(c)
              /\ call[c].payload = from_claims(call[c].token.claims)
        /\ call[c].result # Returned => call[c].payload = NoPayload

C19_PayloadStep ==
    \A c \in Callers :
        (call'[c].payload # NoPayload /\ call[c].payload = NoPayload) =>
            /\ call[c].mode = "get"
            /\ call[c].pc \in {"acquire", "fetching"}
            /\ call'[c].resolves = call[c].resolves + 1
            /\ call'[c].decodes = call[c].decodes + 1
            /\ call'[c].result = Returned

C19_StagesInOrder == [](C19_PayloadOnlyAfterAllStages) /\ [][C19_PayloadStep]_vars

\* a retried verification returned a payload on its second attempt
C19_Witness ==
    \E c \in Frames("verify_token_with_retry") :
        /\ call[c].pc = "done" /\ call[c].result = Returned
        /\ call[c].attempt = 2 /\ call[c].misses = 1
        /\ call[c].payload # NoPayload

\* C20: from_claims sets roles to the roles entry of realm_access whenever
\* realm_access is there and has one, whatever else the claims hold; else to
\* the top-level roles claim when that is a list; else to the empty list; the
\* chosen list is taken as it is, in its order.
C20_Expected(claims) ==
    IF /\ "realm_access" \in DOMAIN claims
       /\ claims.realm_access.t = "dict"
       /\ "roles" \in DOMAIN claims.realm_access.d
    THEN claims.realm_access.d.roles
    ELSE IF "roles" \in DOMAIN claims /\ claims.roles.t = "list"
    THEN claims.roles
    ELSE JList(<<>>)

C20_RolesPrecedence ==
    model_call.fn = "from_claims" =>
        /\ ~IsRaise(model_call.result)
        /\ model_call.result.roles = C20_Expected(model_call.arg)

\* The same for the claim sets whose realm_access, when present, is an object.
C20_RolesPrecedenceOnObjects ==
    (/\ model_call.fn = "from_claims"
     /\ "realm_access" \in DOMAIN model_call.arg =>
            model_call.arg.realm_access.t = "dict") =>
        /\ ~IsRaise(model_call.result)
        /\ model_call.result.roles = C20_Expected(model_call.arg)

\* C21: on a TokenPayload built from claims with the role list R, and on the
\* AuthUser built from it, roles is R; has_role(r) is true iff r is one of the
\* names in R (names differing in case are different names); has_any_role(Q)
\* iff some name of Q is in R, so false for the empty Q; has_all_roles(Q) iff
\* every name of Q is in R, so true for the empty Q.  The answers depend on
\* the set of names in R only, and are the same for both classes.
Names(seq) == { seq[i] : i \in 1..Len(seq) }
C21_Claims(self, class) ==
    IF class = "TokenPayload" THEN self.raw_claims
    ELSE self.token_payload.raw_claims

C21_RoleHelpers ==
    model_call.fn \in {"has_role", "has_any_role", "has_all_roles"} =>
        LET m == model_call
            R == C21_Claims(m.self, m.class).realm_access.d.roles IN
        /\ m.self.roles = R
        /\ m.fn = "has_role" => (m.result <=> m.arg \in Names(R.l))
        /\ m.fn = "has_any_role" =>
              (m.result <=> Names(m.arg) \cap Names(R.l) # {})
        /\ m.fn = "has_all_roles" =>
              (m.result <=> Names(m.arg) \subseteq Names(R.l))

\* has_all_roles([admin, editor]) has answered false on the AuthUser whose
\* roles are [admin, viewer]
C21_Witness ==
    /\ model_call.fn = "has_all_roles"
    /\ model_call.class = "AuthUser"
    /\ model_call.self.roles = JList(<<"admin", "viewer">>)
    /\ model_call.arg = <<"admin", "editor">>
    /\ model_call.result = FALSE

\* C22: verify_token on the empty string ends at once in InvalidTokenError
\* "Token is empty": the call never queues for the cache lock, never holds
\* it, issues no GET, and the step that makes the call leaves the cache, its
\* expiry, the lock and the lock's queue as they were, whatever they hold.
InQueue(c) == \E i \in 1..Len(lock_waiters) : lock_waiters[i] = c
C22_EmptyFrames ==
    { c \in Frames("verify_token") : call[c].token.empty }

C22_Rejected ==
    \A c \in C22_EmptyFrames :
        /\ call[c].pc = "done"
        /\ call[c].result = Raise("InvalidTokenError", <<"Token", "is", "empty">>)
        /\ call[c].fetches = 0 /\ call[c].resolves = 0
        /\ ~InQueue(c) /\ cache_lock # c

C22_Step ==
    \A c \in Callers :
        (call[c].pc = "idle" /\ call'[c].op = "verify_token"
         /\ call'[c].token.empty) =>
            UNCHANGED <<jwks_cache, jwks_cache_expires, cache_lock, lock_waiters>>

C22_EmptyTokenRejectedAtOnce ==
    [](C22_Rejected) /\ [][C22_Step]_vars

\* the empty string has been rejected while another caller holds the lock
\* with a GET in flight and a key set is cached
C22_Witness ==
    \E c \in C22_EmptyFrames :
        /\ cache_lock \notin {0, c}
        /\ Truthy(jwks_cache)

\* C23: once the forced refresh of a verification call has completed, and
\* while the cache holds what it stored, a get_jwks of another caller that
\* tests the cache before the stored expiry returns that key set from the
\* cache and issues no GET.
C23_RefreshedBy(c) ==
    /\ call[c].op \in {"verify_token", "verify_token_with_retry"}
    /\ call[c].refreshed_expires # NoExpiry
    /\ jwks_cache = call[c].refreshed
    /\ jwks_cache_expires = call[c].refreshed_expires
    /\ now < jwks_cache_expires

C23_ServedFromCache(c1, c2) ==
    (/\ call[c2].pc = "acquire" /\ call[c2].mode = "get"
     /\ call'[c2] # call[c2]) =>
        /\ call'[c2].pc # "fetching"
        /\ call'[c2].fetches = call[c2].fetches
        /\ call'[c2].src = "cache"
        /\ call[c2].op = "get_jwks" => call'[c2].jwks = call[c1].refreshed

C23_Step ==
    \A c1, c2 \in Callers :
        (c1 # c2 /\ C23_RefreshedBy(c1)) => C23_ServedFromCache(c1, c2)

C23_OthersUseTheRefreshedCache == [][C23_Step]_vars

\* The same when the refresh stored a key set that is not empty
C23_StepTruthy ==
    \A c1, c2 \in Callers :
        (c1 # c2 /\ C23_RefreshedBy(c1) /\ Truthy(call[c1].refreshed)) =>
            C23_ServedFromCache(c1, c2)

C23_OthersUseTheRefreshedKeys == [][C23_StepTruthy]_vars

\* C27: verify_token looks at a non-empty token only after get_jwks has
\* returned.  The step that makes the call queues it for the cache lock with
\* no result; with nothing cached or the cache expired the call issues one
\* GET; a token that is only the scheme prefix, unparseable, or of an
\* unsupported algorithm is rejected as InvalidTokenError after get_jwks
\* returned to it (one GET when the key set came from a fetch, none when it
\* came from the cache), and when the GET fails the call ends in
\* JWKSFetchError, the token never looked at.
C27_Frames == { c \in Frames("verify_token") : ~call[c].token.empty }
C27_Rejects(tok) == ~tok.empty /\ (~tok.header_ok \/ tok.alg # RS256)

C27_Inv ==
    \A c \in C27_Frames :
        LET f == call[c] IN
        /\ f.pc \in {"acquire", "fetching"} => f.resolves = 0
        /\ (f.pc = "done" /\ f.result.kind = "JWKSFetchError") =>
              f.resolves = 0 /\ f.fetches = 1
        /\ (f.pc = "done" /\ C27_Rejects(f.token)) =>
              \/ /\ f.result.kind = "InvalidTokenError"
                 /\ f.resolves = 1
                 /\ f.fetches = (IF f.src = "fetch" THEN 1 ELSE 0)
              \/ /\ f.result.kind = "JWKSFetchError"

C27_Step ==
    \A c \in Callers :
        /\ (call[c].pc = "idle" /\ call'[c].op = "verify_token"
            /\ ~call'[c].token.empty) =>
                /\ call'[c].pc = "acquire" /\ call'[c].mode = "get"
                /\ call'[c].result = NoResult
        /\ (/\ c \in C27_Frames /\ call[c].pc = "acquire"
            /\ call'[c] # call[c]
            /\ (jwks_cache = NoneJwks \/ jwks_cache_expires <= now)) =>
                call'[c].pc = "fetching" /\ call'[c].fetches = 1

C27_KeySetBeforeToken == [](C27_Inv) /\ [][C27_Step]_vars

\* the string "Bearer " alone has been rejected after one GET
C27_Witness ==
    \E c \in C27_Frames :
        /\ call[c].token.bearer /\ ~call[c].token.header_ok
        /\ call[c].pc = "done"
        /\ call[c].result.kind = "InvalidTokenError"
        /\ call[c].fetches = 1

\* C28: the cache lock is held only while its holder's GET is in flight, so
\* it is free after every exit of get_jwks and refresh_jwks, the failed
\* fetch included; and, every GET ending, every caller waiting for the lock
\* gets it and completes its call.
C28_HeldOnlyWhileFetching ==
    /\ cache_lock # 0 => call[cache_lock].pc = "fetching"
    /\ \A c \in Callers : call[c].pc = "fetching" => cache_lock = c

C28_FailureReleases ==
    \A c \in Callers :
        (call[c].pc = "fetching" /\ call'[c].pc = "done"
         /\ call'[c].result.kind = "JWKSFetchError") => cache_lock' = 0

C28_LockAlwaysReleased ==
    /\ [](C28_HeldOnlyWhileFetching)
    /\ [][C28_FailureReleases]_vars
    /\ \A c \in Callers : (call[c].pc = "acquire") ~> (call[c].pc = "done")

\* a refresh_jwks called while a GET was in flight has completed with a key
\* set, and the other call ended in the fetch error
C28_Witness ==
    \E c1, c2 \in Callers :
        /\ calls = 2
        /\ call[c1].pc = "done" /\ call[c1].result.kind = "JWKSFetchError"
        /\ call[c2].op = "refresh_jwks" /\ call[c2].busy
        /\ call[c2].pc = "done" /\ call[c2].result.kind = "jwks"

\* C29: a fetched value is a usable cache entry only when it is truthy.  A
\* successful fetch stores whatever the endpoint answered, {} included, with
\* a new expiry; a get_jwks that tests the cache before the expiry is served
\* from the cache with no GET when the stored value is a non-empty object,
\* and issues a GET of its own when the stored value is {}.
C29_Tests(c) ==
    /\ call[c].pc = "acquire" /\ call[c].mode = "get"
    /\ call'[c] # call[c]
    /\ jwks_cache_expires # NoExpiry /\ now < jwks_cache_expires

C29_Step ==
    \A c \in Callers :
        /\ (call[c].pc = "fetching" /\ call'[c].pc # "fetching"
            /\ call'[c].result.kind # "JWKSFetchError") =>
                /\ jwks_cache' = provider
                /\ jwks_cache_expires' = now + jwks_cache_ttl
        /\ (C29_Tests(c) /\ Truthy(jwks_cache)) =>
                /\ call'[c].pc = "done" /\ call'[c].fetches = 0
                /\ call'[c].jwks = jwks_cache
        /\ (C29_Tests(c) /\ jwks_cache = EmptyObject) =>
                /\ call'[c].pc = "fetching" /\ call'[c].fetches = 1

C29_OnlyTruthyCounts == [][C29_Step]_vars

\* a get_jwks has its GET in flight while {} is stored and not yet expired
C29_Witness ==
    \E c \in Frames("get_jwks") :
        /\ call[c].pc = "fetching"
        /\ jwks_cache = EmptyObject
        /\ now < jwks_cache_expires

\* C24: the dependency created for a configuration uses a verifier built
\* for that configuration, and dependencies created for different
\* configurations use different verifiers, hence different caches.
C24_Deps == { dependencies[i] : i \in 1..Len(dependencies) }

C24_OneVerifierPerConfiguration ==
    /\ \A d \in C24_Deps : verifier_cache[d.verifier].config = d.config
    /\ \A d1, d2 \in C24_Deps :
          d1.config # d2.config => d1.verifier # d2.verifier

\* The same for configurations that differ in server URL or realm
C24_OneVerifierPerRealm ==
    /\ \A d \in C24_Deps :
          /\ verifier_cache[d.verifier].config.server_url = d.config.server_url
          /\ verifier_cache[d.verifier].config.realm = d.config.realm
    /\ \A d1, d2 \in C24_Deps :
          (d1.config.server_url # d2.config.server_url
           \/ d1.config.realm # d2.config.realm) => d1.verifier # d2.verifier

\* C25: the optional_auth dependency never raises: it returns an AuthUser
\* when the request carries a Bearer token that verifies, and None in every
\* other case.
C25_Frames == { c \in Callers : call[c].dep = "optional_auth" /\ call[c].pc = "done" }

C25_Answer(c) ==
    IF call[c].result = Returned
    THEN call[c].response = UserResponse(from_token_payload(call[c].payload,
                                                            call[c].token))
    ELSE call[c].response = NoneResponse

C25_OptionalAuthNeverRaises ==
    \A c \in C25_Frames : C25_Answer(c)

\* The same for requests whose verification does not end in the
\* key-set-unavailable error
C25_OptionalAuthOnVerificationErrors ==
    \A c \in C25_Frames :
        call[c].result.kind # "JWKSFetchError" => C25_Answer(c)

\* C26: on a request that require_auth's dependency has authenticated,
\* require_roles(*roles, any_role) tests that user's roles: it passes when
\* the user has all of the roles (any of them with any_role), raises 403
\* when not, and never raises 401.
C26_Checked ==
    { c \in Callers : /\ call[c].dep = "require_auth"
                      /\ call[c].response.kind = "AuthUser"
                      /\ call[c].role_check # NoResponse }

C26_RolesOfTheAuthenticatedUser ==
    \A c \in C26_Checked :
        LET r == call[c].role_check IN
        /\ r.response = check_roles(call[c].response.user, r.roles, r.any_role)
        /\ r.response.kind = "HTTPException" => r.response.status_code = 403

\* require_roles on a request whose state has no auth_user attribute
C26_Unauthenticated401 ==
    \A c \in C26_Checked :
        "auth_user" \notin DOMAIN call[c].state =>
            call[c].role_check.response =
                HTTPException(401, "Authentication required")

\* C30: a register call for an email that is already registered fails with
\* EmailAlreadyExistsError and creates no user, also when two calls for one
\* email run concurrently: a call creates the user or ends in
\* EmailAlreadyExistsError, and the table never holds two rows with one
\* email.
C30_UniqueEmails ==
    \A i, j \in 1..Len(users) : users[i].email = users[j].email => i = j

C30_Created(c) ==
    \E i \in 1..Len(users) : users[i].id = register_call[c].user_id

C30_Done == { c \in Callers : register_call[c].pc = "done" }

C30_DuplicateIsEmailAlreadyExists ==
    /\ C30_UniqueEmails
    /\ \A c \in C30_Done :
          \/ register_call[c].result = "Account created" /\ C30_Created(c)
          \/ register_call[c].result = "EmailAlreadyExistsError" /\ ~C30_Created(c)

\* The same for calls made when the email is already in the table, with the
\* uniqueness of emails in the table
C30_RegisteredEmailIsRefused ==
    /\ C30_UniqueEmails
    /\ \A c \in C30_Done :
          /\ register_call[c].taken =>
                /\ register_call[c].result = "EmailAlreadyExistsError"
                /\ ~C30_Created(c)
          /\ register_call[c].result = "Account created" <=> C30_Created(c)

====
